---------------------------- MODULE Spec2Model ----------------------------
(***************************************************************************)
(* HuntOverlay: the overlay controller (class Overlay of HuntOverlay.py),  *)
(* its tick-driven hotkey state machine, the hover resolver, the per       *)
(* category hidden sets and the versioned configuration document.          *)
(*                                                                         *)
(* Conventions of the model                                                *)
(*  - The hotkey oracle: a tick receives the set of actions whose binding  *)
(*    is reported pressed by _bind_pressed in that tick.                   *)
(*  - A hide identifier "src:xi:yi" is the tuple <<src, xi, yi>> and       *)
(*    "xi:yi" is <<xi, yi>>.                                               *)
(*  - A source coordinate is kept in halves: 8190 is 4095.0 and 8189 is    *)
(*    4094.5; u and v are numerators over 2 * GRID.                        *)
(*  - A fractional rectangle is kept exactly, as numerators over 2560     *)
(*    (rx, rw) and over 4320 (ry, rh).                                     *)
(*  - Squared distances are kept exactly, scaled by GRID^2, as the pair    *)
(*    <<DX^2, DY^2>> so that no intermediate value leaves 32 bits.         *)
(***************************************************************************)
EXTENDS Integers, Sequences, FiniteSets, TLC

(***************************************************************************)
(* Program constants                                                       *)
(***************************************************************************)
MAPS == <<"Stillwater Bayou", "Lawson Delta", "DeSalle", "Mammon's Gulch">>

MapSet == {MAPS[i] : i \in 1..Len(MAPS)}

CONFIG_VERSION == "1.0.1"

DEFAULT_HIDDEN_POSSIBLE_XP == {<<"armories", 1508, 2096>>, <<"big_towers", 1320, 3328>>}

type_order ==
  <<"possible_xp", "spawns", "armories", "towers", "big_towers", "workbenches",
    "wild_targets", "beetles", "easter_eggs", "melee_weapons", "cash_registers">>

TypeSet == {type_order[i] : i \in 1..Len(type_order)}

Actions ==
  {"toggle_master", "toggle_overlay", "hide_overlay",
   "map_1", "map_2", "map_3", "map_4", "hide_hovered"}

\* default_keybinds: virtual key codes, modifiers on hide_hovered only
default_keybinds ==
  [a \in Actions |->
     IF a = "hide_hovered"
       THEN [vk |-> 46, ctrl |-> TRUE, alt |-> TRUE, shift |-> TRUE]
     ELSE [vk |-> CASE a = "toggle_master" -> 192
                    [] a = "toggle_overlay" -> 9
                    [] a = "hide_overlay" -> 72
                    [] a = "map_1" -> 49
                    [] a = "map_2" -> 50
                    [] a = "map_3" -> 51
                    [] a = "map_4" -> 52]]

\* Win32 virtual key codes of the modifiers
VK_SHIFT == 16

VK_CONTROL == 17

VK_MENU == 18

GRID == 4095

hover_radius == 10

None == "None"

\* self.hover = None
NoHover == [map |-> None, type |-> None, index |-> 0]

(***************************************************************************)
(* Bounds of the model                                                     *)
(***************************************************************************)
\* at most this many actions are reported pressed in one tick
MaxKeysDown == 2

\* at most this many operations meet a failing write to config.json
MaxFailedWrites == 1

\* at most this many keys are missing from a stored document
MaxMissing == 2

\* at most this many entries are in a category list of a drawn dataset
MaxRecords == 3

\* the display of the model
Screen == [w |-> 2560, h |-> 1440]

\* a value of a coordinate pair: a number, in halves, or a value float() rejects
Num(v) == [num |-> TRUE, v |-> v]

NotNum == [num |-> FALSE]

\* a well-formed entry of a category list: {"c": [x, y]}, x and y in halves
Poi(x, y) == [kind |-> "dict", c |-> [kind |-> "list", items |-> <<Num(x), Num(y)>>]]

\* the POI dataset of the model (data.json), per map and source category:
\* two records of the same tower, one spawn; an armory on the second map
\* at the coordinates of a pre-seeded possible_xp identifier; on the third
\* map towers at 4094.0, 4094.5 and 4093.0 and an armory at 4094.0
game_data ==
  [m \in MapSet |->
    [c \in TypeSet |->
      IF m = MAPS[1] /\ c = "towers"
        THEN << Poi(8190, 0), Poi(8190, 0) >>
      ELSE IF m = MAPS[1] /\ c = "spawns"
        THEN << Poi(8190, 8190) >>
      ELSE IF m = MAPS[2] /\ c = "armories"
        THEN << Poi(3016, 4192) >>
      ELSE IF m = MAPS[3] /\ c = "towers"
        THEN << Poi(8188, 0), Poi(8189, 0), Poi(8186, 0) >>
      ELSE IF m = MAPS[3] /\ c = "armories"
        THEN << Poi(8188, 0) >>
      ELSE << >> ] ]

\* cursor positions (overlay-local pixels) a tick may observe
CursorFar == <<0, 0>>
CursorOnTower == <<790, 210>>
\* hover_radius pixels below the spawn, and one pixel further
CursorAtRadius == <<1773, 220>>
CursorBeyondRadius == <<1773, 221>>
\* within the radius of the armory of the second map
CursorOnArmory == <<1293, 832>>

(***************************************************************************)
(* Pure functions                                                          *)
(***************************************************************************)
Abs(n) == IF n < 0 THEN -n ELSE n

Max(a, b) == IF a >= b THEN a ELSE b

\* an aspect detection whose thresholds are exclusive
DetectAspectStrict(w, h) ==
  IF h <= 0 THEN "16:9"
  ELSE IF 10 * w > 32 * h THEN "32:9"
  ELSE IF 10 * w > 22 * h THEN "21:9"
  ELSE "16:9"

\* detect_aspect_label: a = w / h compared with 3.20 and 2.20
detect_aspect_label(w, h) ==
  IF h <= 0 THEN "16:9"
  ELSE IF 10 * w >= 32 * h THEN "32:9"
  ELSE IF 10 * w >= 22 * h THEN "21:9"
  ELSE "16:9"

\* numerators over 2560 (rx, rw) and over 4320 (ry, rh)
RatioDen == [w |-> 2560, h |-> 4320]

default_rect_ratio_16_9 == [rx |-> 790, ry |-> 630, rw |-> 983, rh |-> 2952]

default_rect_ratio_21_9 == [rx |-> 912, ry |-> 636, rw |-> 735, rh |-> 2944]

default_rect_ratio_32_9 == [rx |-> 1035, ry |-> 636, rw |-> 489, rh |-> 2934]

default_rect_ratio_by_aspect(a) ==
  IF a = "16:9" THEN default_rect_ratio_16_9
  ELSE IF a = "21:9" THEN default_rect_ratio_21_9
  ELSE IF a = "32:9" THEN default_rect_ratio_32_9
  ELSE default_rect_ratio_16_9

aspect == detect_aspect_label(Screen.w, Screen.h)

\* a stored rect_ratio_by_aspect[aspect] entry: kind "dict" is an object with
\* numbers rx, ry, rw, rh; "bad_dict" an object that lacks one of them;
\* "non_numeric" an object that has the four, one of them no number;
\* "not_object" a value that is no object; "absent" no entry
MalformedRatio == [kind |-> "bad_dict", rr |-> default_rect_ratio_16_9]

\* the default fill colour of a category (type_specs[k]["default_fill"])
DefaultFill(k) == <<"default_fill", k>>

DefaultTypes == [k \in TypeSet |-> [enabled |-> TRUE, color |-> DefaultFill(k)]]

build_default_config ==
  [version |-> CONFIG_VERSION,
   profiles |-> [m \in MapSet |-> [kind |-> "dict", rr |-> default_rect_ratio_by_aspect(aspect)]],
   settings |->
     [enable_num_switch |-> TRUE,
      selected_map |-> MAPS[1],
      visible_overlay |-> FALSE,
      master_on |-> TRUE,
      global_scale |-> 100,
      minimize_to_tray |-> FALSE,
      keybinds |-> default_keybinds,
      types |-> [k \in {} |-> TRUE],
      hidden |-> [k \in {"possible_xp"} |-> DEFAULT_HIDDEN_POSSIBLE_XP]]]


(***************************************************************************)
(* State                                                                   *)
(***************************************************************************)
VARIABLES
  master,            \* self.master
  visible,           \* self.visible
  shown,             \* the overlay window is shown (show() / hide())
  prof,              \* self.prof, the selected map
  num_sw,            \* self.num_sw
  global_scale,      \* self.global_scale, in hundredths
  minimize_to_tray,  \* self.minimize_to_tray
  binds,             \* self.binds: action -> binding
  types,             \* self.types: category -> [enabled, color]
  hidden_sets,       \* self.hidden_sets: category -> set of hide identifiers
  rect,              \* self.rect
  hover,             \* self.hover: None or [map, type, index]
  p_toggle_master,   \* edge flags
  p_hide,
  p_toggle_overlay,
  p_hide_hovered,
  data,              \* self.data, the in-memory document
  disk,              \* config.json: {} when missing, else {document}
  \* history of the last step, for stating the properties
  lastKeys,          \* the actions reported pressed in the latest tick
  cursor,            \* the cursor position of the latest tick
  fired,             \* the transitions that fired in the last step
  hid,               \* what _hide_hovered inserted in the last step, or None
  hoverFresh,        \* the last step was a tick that ended with the hover it resolved
  firedInHold,       \* actions that fired since their key was last seen up
  last,              \* the last operation, where a specification records it
  writeFails         \* the writes to config.json that have failed so far

progVars ==
  <<master, visible, shown, prof, num_sw, global_scale, minimize_to_tray, binds,
    types, hidden_sets, rect, hover,
    p_toggle_master, p_hide, p_toggle_overlay, p_hide_hovered, data, disk>>

histVars == <<lastKeys, cursor, fired, hid, hoverFresh, firedInHold, last, writeFails>>

vars == <<progVars, histVars>>

\* the object as a record, with the bookkeeping of one step
Cur ==
  [master |-> master, visible |-> visible, shown |-> shown, prof |-> prof,
   num_sw |-> num_sw, global_scale |-> global_scale,
   minimize_to_tray |-> minimize_to_tray, binds |-> binds,
   types |-> types, hidden_sets |-> hidden_sets,
   rect |-> rect, hover |-> hover,
   p_toggle_master |-> p_toggle_master, p_hide |-> p_hide,
   p_toggle_overlay |-> p_toggle_overlay, p_hide_hovered |-> p_hide_hovered,
   data |-> data, disk |-> disk,
   fired |-> {}, hid |-> NoHover, raised |-> FALSE, hoverFresh |-> FALSE,
   saves |-> 0, rects |-> 0]

Apply(s) ==
  /\ master' = s.master
  /\ visible' = s.visible
  /\ shown' = s.shown
  /\ prof' = s.prof
  /\ num_sw' = s.num_sw
  /\ global_scale' = s.global_scale
  /\ minimize_to_tray' = s.minimize_to_tray
  /\ binds' = s.binds
  /\ types' = s.types
  /\ hidden_sets' = s.hidden_sets
  /\ rect' = s.rect
  /\ hover' = s.hover
  /\ p_toggle_master' = s.p_toggle_master
  /\ p_hide' = s.p_hide
  /\ p_toggle_overlay' = s.p_toggle_overlay
  /\ p_hide_hovered' = s.p_hide_hovered
  /\ data' = s.data
  /\ disk' = s.disk
  /\ fired' = s.fired
  /\ hid' = s.hid
  /\ hoverFresh' = s.hoverFresh


(***************************************************************************)
(* Configuration store                                                     *)
(***************************************************************************)
\* apply F to the value of x, evaluated once
Then(x, F(_)) == F(x)

\* an object without keys
EmptyDict == [k \in {} |-> None]

\* d.get(k, dflt)
Get(d, k, dflt) == IF k \in DOMAIN d THEN d[k] ELSE dflt

\* old.update(new): the keys of new are set, every other key of old is kept
Update(old, new) == new @@ old

\* save_json: the write succeeds (ok) or fails and is swallowed
save_json(dsk, obj, ok) == IF ok THEN {obj} ELSE dsk

\* contents of config.json that json.load rejects, or parses to no object
Unparseable == [kind |-> "unparseable"]

NonObject == [kind |-> "list"]

\* isinstance(d, dict) for what load_json returned ({} stands in for a file
\* that does not parse)
IsDict(x) == "kind" \notin DOMAIN x

\* what is found at CONFIG_PATH: no file, a file that does not parse, a parsed
\* value that is no object, or an object
FileKind(dsk) ==
  IF dsk = {} THEN "missing"
  ELSE LET d == CHOOSE x \in dsk : TRUE
       IN IF IsDict(d) THEN "object" ELSE d.kind

\* a load that does not compare versions: a stored object that has a version
\* is returned as it is
LoadAnyVersion(dsk, ok) ==
  IF FileKind(dsk) = "object" /\ "version" \in DOMAIN (CHOOSE x \in dsk : TRUE)
    THEN <<CHOOSE x \in dsk : TRUE, dsk>>
  ELSE <<build_default_config, save_json(dsk, build_default_config, ok)>>

\* load_or_replace_config: <<document returned, file afterwards>>
load_or_replace_config(dsk, ok) ==
  IF dsk = {}
    THEN <<build_default_config, save_json(dsk, build_default_config, ok)>>
  ELSE LET d == CHOOSE x \in dsk : TRUE IN
    IF ~IsDict(d) \/ "version" \notin DOMAIN d \/ d.version # CONFIG_VERSION
      THEN <<build_default_config, save_json(dsk, build_default_config, ok)>>
    ELSE <<d, dsk>>

\* QRect(int(rx * W), int(ry * H), max(1, int(rw * W)), max(1, int(rh * H)))
RectFromRatio(rr) ==
  [left |-> (rr.rx * Screen.w) \div RatioDen.w,
   top |-> (rr.ry * Screen.h) \div RatioDen.h,
   w |-> Max(1, (rr.rw * Screen.w) \div RatioDen.w),
   h |-> Max(1, (rr.rh * Screen.h) \div RatioDen.h)]

\* the rect_ratio_by_aspect[aspect] entry of map m in document d
StoredRatio(d, m) == Get(Get(d, "profiles", EmptyDict), m, [kind |-> "absent"])

\* _apply_rect: the rectangle of the selected map for the detected aspect;
\* the default ratios where the stored entry is absent or no object; raises
\* (raised) on an object that lacks rx, ry, rw or rh or holds a value that
\* is no number
ApplyRect(s) ==
  LET e == StoredRatio(s.data, s.prof)
      rr == IF e.kind \in {"absent", "not_object"}
              THEN default_rect_ratio_by_aspect(aspect) ELSE e.rr
  IN IF e.kind \in {"bad_dict", "non_numeric"}
       THEN [s EXCEPT !.raised = TRUE, !.rects = @ + 1]
     ELSE [s EXCEPT !.rects = @ + 1, !.rect = RectFromRatio(rr)]

\* a clamp that has no upper end
ClampBelowOnly(x) == IF x < 10 THEN 10 ELSE x

\* the clamp of global_scale to [0.10, 5.00], in hundredths
ClampScale(x) == IF x < 10 THEN 10 ELSE IF x > 500 THEN 500 ELSE x

\* _normalize_keybinds: the stored bindings merged over the defaults, unknown
\* actions ignored; ctrl, alt, shift forced present on hide_hovered
normalize_keybinds(b) ==
  [k \in Actions |->
     LET given == IF k \in DOMAIN b THEN b[k] ELSE [f \in {} |-> 0]
         merged == [f \in DOMAIN default_keybinds[k] \cup DOMAIN given |->
                      IF f \in DOMAIN given THEN given[f] ELSE default_keybinds[k][f]]
     IN IF k = "hide_hovered"
          THEN [f \in DOMAIN merged \cup {"ctrl", "alt", "shift"} |->
                  IF f \in DOMAIN merged THEN merged[f] ELSE TRUE]
        ELSE merged]

\* a load that takes the stored types as they are
LoadTypesAsStored(st) == Get(st, "types", EmptyDict)

\* _load_state_from_config, lines 1076-1085: the stored types, an entry with
\* enabled and color for every category of type_order
LoadTypes(st) ==
  LET given == Get(st, "types", EmptyDict)
  IN [k \in TypeSet \cup DOMAIN given |->
        IF k \in TypeSet
          THEN Update(DefaultTypes[k], Get(given, k, EmptyDict))
        ELSE given[k]]

\* a load that takes the hidden sets as they are stored
LoadHiddenAsStored(st) ==
  [k \in TypeSet |-> Get(Get(st, "hidden", EmptyDict), k, {})]

\* _load_state_from_config, lines 1088-1104: a hidden set for every category
\* of type_order, the pre-seeded identifiers added to possible_xp
LoadHidden(st) ==
  LET given == Get(st, "hidden", EmptyDict)
      hd == [k \in TypeSet |-> Get(given, k, {})]
  IN [hd EXCEPT !["possible_xp"] = @ \cup DEFAULT_HIDDEN_POSSIBLE_XP]

\* _load_state_from_config
LoadStateFromConfig(s, d) ==
  LET st == Get(d, "settings", EmptyDict)
      sel == Get(st, "selected_map", MAPS[1])
  IN ApplyRect(
       [s EXCEPT
          !.num_sw = Get(st, "enable_num_switch", TRUE),
          !.prof = IF sel \in MapSet THEN sel ELSE MAPS[1],
          !.visible = Get(st, "visible_overlay", FALSE),
          !.master = Get(st, "master_on", TRUE),
          !.global_scale = ClampScale(Get(st, "global_scale", 100)),
          !.minimize_to_tray = Get(st, "minimize_to_tray", FALSE),
          !.binds = normalize_keybinds(Get(st, "keybinds", EmptyDict)),
          !.types = LoadTypes(st),
          !.hidden_sets = LoadHidden(st)])

\* _save, lines 1162-1176: the keys _save sets in the document
Flush(s) ==
  Update(s.data,
         [version |-> CONFIG_VERSION,
          settings |->
            Update(Get(s.data, "settings", EmptyDict),
                   [enable_num_switch |-> s.num_sw,
                    selected_map |-> s.prof,
                    visible_overlay |-> s.visible,
                    master_on |-> s.master,
                    global_scale |-> s.global_scale,
                    minimize_to_tray |-> s.minimize_to_tray,
                    types |-> s.types,
                    keybinds |-> s.binds,
                    hidden |-> s.hidden_sets])])

\* a save that, when the write fails, puts the flags and the map stored in
\* the document back into memory
SaveOrRevert(s, ok) ==
  IF ok
    THEN Then(Flush(s), LAMBDA d : [s EXCEPT !.data = d, !.disk = {d}, !.saves = @ + 1])
  ELSE [s EXCEPT !.master = s.data.settings.master_on,
                 !.visible = s.data.settings.visible_overlay,
                 !.num_sw = s.data.settings.enable_num_switch,
                 !.prof = s.data.settings.selected_map,
                 !.saves = @ + 1]

\* _save: flush the in-memory state into self.data and write it
Save(s, ok) ==
  Then(Flush(s),
       LAMBDA d : [s EXCEPT !.data = d, !.disk = save_json(s.disk, d, ok), !.saves = @ + 1])

(***************************************************************************)
(* Point cache and hide identifiers                                        *)
(***************************************************************************)
\* a rotation that does not clamp
RotateUnclamped(x, y) == [u |-> y, v |-> 2 * GRID - x]

\* rotate90cw_norm: u = y / 4095, v = (4095 - x) / 4095, clamped to [0, 1];
\* x and y in halves, u and v numerators over 2 * GRID
rotate90cw_norm(x, y) ==
  LET clamp(n) == IF n < 0 THEN 0 ELSE IF n > 2 * GRID THEN 2 * GRID ELSE n
  IN [u |-> clamp(y), v |-> clamp(2 * GRID - x)]

\* the body of the loop of build_for_category on one entry: "skip" where it
\* continues, "raise" where len(c) is applied to a number, else "point"
EntryOutcome(it) ==
  IF it.kind # "dict" THEN "skip"
  ELSE IF it.c.kind = "absent" THEN "skip"
  ELSE IF it.c.kind = "number" THEN (IF it.c.v = 0 THEN "skip" ELSE "raise")
  ELSE IF Len(it.c.items) < 2 THEN "skip"
  ELSE IF ~(it.c.items[1].num /\ it.c.items[2].num) THEN "skip"
  ELSE "point"

\* pts.append({"u": u, "v": v, "x": x, "y": y, "raw": it, "src": cat})
PointFrom(it, cat) ==
  LET x == it.c.items[1].v
      y == it.c.items[2].v
      uv == rotate90cw_norm(x, y)
  IN [u |-> uv.u, v |-> uv.v, x |-> x, y |-> y, src |-> cat]

\* build_for_category on the list items, from entry i on: the points built,
\* or raised
RECURSIVE BuildFrom(_, _, _)
BuildFrom(items, cat, i) ==
  IF i > Len(items) THEN [raised |-> FALSE, pts |-> << >>]
  ELSE LET o == EntryOutcome(items[i])
           rest == BuildFrom(items, cat, i + 1)
       IN IF o = "raise" \/ rest.raised THEN [raised |-> TRUE, pts |-> << >>]
          ELSE IF o = "skip" THEN rest
          ELSE [rest EXCEPT !.pts = <<PointFrom(items[i], cat)>> \o @]

build_for_category(items, cat) == BuildFrom(items, cat, 1)

\* a build that tags the points of possible_xp with possible_xp
BuildPointsRetagged(block) ==
  LET b == [cat \in TypeSet \ {"possible_xp"} |-> build_for_category(block[cat], cat)]
      union == b["towers"].pts \o b["big_towers"].pts \o b["armories"].pts
  IN [raised |-> \E cat \in DOMAIN b : b[cat].raised,
      out |-> [cat \in TypeSet |->
                 IF cat = "possible_xp"
                   THEN [i \in 1..Len(union) |-> [union[i] EXCEPT !.src = "possible_xp"]]
                 ELSE b[cat].pts]]

\* _build_points_for_map on the block of a map: every category but
\* possible_xp is built from its list, possible_xp is towers + big_towers +
\* armories; raised where build_for_category raised
BuildPoints(block) ==
  LET b == [cat \in TypeSet \ {"possible_xp"} |-> build_for_category(block[cat], cat)]
  IN [raised |-> \E cat \in DOMAIN b : b[cat].raised,
      out |-> [cat \in TypeSet |->
                 IF cat = "possible_xp"
                   THEN b["towers"].pts \o b["big_towers"].pts \o b["armories"].pts
                 ELSE b[cat].pts]]

\* _build_points_for_map
BuildPointsForMap(m) == BuildPoints(game_data[m]).out

\* self.cache after _rebuild_all_caches
cache == [m \in MapSet |-> BuildPointsForMap(m)]

\* a hide identifier made of the coordinates as they are, in halves
HiddenKeyUnrounded(tkey, pt) ==
  IF tkey = "possible_xp" THEN <<pt.src, pt.x, pt.y>> ELSE <<pt.x, pt.y>>

\* int(round(float(x))) of a coordinate in halves: a half goes to the even
\* neighbour
Round(h) ==
  LET n == h \div 2
  IN IF h % 2 = 0 THEN n ELSE IF n % 2 = 0 THEN n ELSE n + 1

\* _hidden_key
HiddenKey(tkey, pt) ==
  IF tkey = "possible_xp" THEN <<pt.src, Round(pt.x), Round(pt.y)>>
  ELSE <<Round(pt.x), Round(pt.y)>>

\* _is_hidden
IsHidden(hs, tkey, pt) == HiddenKey(tkey, pt) \in hs[tkey]


\* a paint that does not look at the hidden sets
PaintAll(s) ==
  IF ~(s.master /\ s.visible)
    THEN [tkey \in TypeSet |-> << >>]
  ELSE [tkey \in TypeSet |->
          IF ~s.types[tkey].enabled THEN << >> ELSE cache[s.prof][tkey]]

\* paintEvent: the points drawn, per category
PaintList(s) ==
  IF ~(s.master /\ s.visible)
    THEN [tkey \in TypeSet |-> << >>]
  ELSE [tkey \in TypeSet |->
          IF ~s.types[tkey].enabled THEN << >>
          ELSE SelectSeq(cache[s.prof][tkey],
                         LAMBDA pt : ~IsHidden(s.hidden_sets, tkey, pt))]

(***************************************************************************)
(* Hover resolver                                                          *)
(***************************************************************************)
\* the points of map m in the order the loops of _update_hover visit them:
\* type_order, then enumerate(pts_by_type[tkey])
RECURSIVE ItemsFrom(_, _)
ItemsFrom(m, ti) ==
  IF ti > Len(type_order) THEN << >>
  ELSE [i \in 1..Len(cache[m][type_order[ti]]) |->
          [map |-> m, type |-> type_order[ti], index |-> i - 1]]
       \o ItemsFrom(m, ti + 1)

HoverItems(m) == ItemsFrom(m, 1)

PointOf(h) == cache[h.map][h.type][h.index + 1]

\* GRID * (mx - cx) and GRID * (my - cy) for cx = left + u * width, cy = top + v * height;
\* exact where pt.u * rc.w and pt.v * rc.h are even, as with the dataset and
\* the rectangles of the model (a y without a half, an even height)
Offset(rc, cur, pt) ==
  <<GRID * (cur[1] - rc.left) - (pt.u * rc.w) \div 2,
    GRID * (cur[2] - rc.top) - (pt.v * rc.h) \div 2>>

\* no squared distance beyond the radius is ever <= best_d2
InBox(o) == Abs(o[1]) <= hover_radius * GRID /\ Abs(o[2]) <= hover_radius * GRID

\* d2 = dx * dx + dy * dy, scaled by GRID^2, as <<DX^2, DY^2>>
D2(o) == <<o[1] * o[1], o[2] * o[2]>>

\* d2 <= best_d2
D2Leq(a, b) == a[1] - b[1] <= b[2] - a[2]

\* float(self.hover_radius * self.hover_radius)
RadiusD2 == <<(hover_radius * GRID) * (hover_radius * GRID), 0>>

\* a scan that keeps the earlier of two points at the same distance
CloserStrict(d2, best_d2) == D2Leq(d2, best_d2) /\ ~D2Leq(best_d2, d2)

\* a scan that rejects a point exactly at the radius
CloserInside(d2, best_d2) == D2Leq(d2, best_d2) /\ ~D2Leq(RadiusD2, d2)

\* the comparison of the scan: if d2 <= best_d2
Closer(d2, best_d2) == D2Leq(d2, best_d2)

RECURSIVE HoverScan(_, _, _, _, _, _)
HoverScan(s, cur, items, i, best, best_d2) ==
  IF i > Len(items) THEN best
  ELSE LET it == items[i]
           pt == PointOf(it)
           o == Offset(s.rect, cur, pt)
       IN IF ~s.types[it.type].enabled
            THEN HoverScan(s, cur, items, i + 1, best, best_d2)
          ELSE IF IsHidden(s.hidden_sets, it.type, pt)
            THEN HoverScan(s, cur, items, i + 1, best, best_d2)
          ELSE IF InBox(o) /\ Closer(D2(o), best_d2)
            THEN HoverScan(s, cur, items, i + 1, it, D2(o))
          ELSE HoverScan(s, cur, items, i + 1, best, best_d2)

\* _update_hover
UpdateHover(s, cur) ==
  IF ~(s.master /\ s.visible)
    THEN [s EXCEPT !.hover = NoHover]
  ELSE [s EXCEPT !.hover = HoverScan(s, cur, HoverItems(s.prof), 1, NoHover, RadiusD2)]

\* a hide that is not scoped to the hovered category: it marks the point in
\* its source category as well
HideHoveredUnscoped(s, ok) ==
  IF s.hover = NoHover THEN s
  ELSE LET tkey == s.hover.type
           pt == PointOf(s.hover)
       IN [Save([s EXCEPT !.hidden_sets[tkey] = @ \cup {HiddenKey(tkey, pt)},
                          !.hidden_sets[pt.src] = @ \cup {HiddenKey(pt.src, pt)}], ok)
             EXCEPT !.hover = NoHover, !.hid = s.hover]

\* _hide_hovered
HideHovered(s, ok) ==
  IF s.hover = NoHover THEN s
  ELSE LET tkey == s.hover.type
           hk == HiddenKey(tkey, PointOf(s.hover))
       IN [Save([s EXCEPT !.hidden_sets[tkey] = @ \cup {hk}], ok)
             EXCEPT !.hover = NoHover, !.hid = s.hover]


(***************************************************************************)
(* Operations                                                              *)
(***************************************************************************)
\* a switch that is refused unless the overlay is visible
SwitchWhenVisible(s, name, ok) ==
  IF name \in MapSet /\ name # s.prof /\ s.master /\ s.visible
    THEN Then(ApplyRect([s EXCEPT !.prof = name]),
              LAMBDA s1 : IF s1.raised THEN s1 ELSE Save(s1, ok))
  ELSE s

\* switch
Switch(s, name, ok) ==
  IF name \in MapSet /\ name # s.prof
    THEN Then(ApplyRect([s EXCEPT !.prof = name]),
              LAMBDA s1 : IF s1.raised THEN s1 ELSE Save(s1, ok))
  ELSE s

\* _tick, lines 1371-1378: toggle-master
TickToggleMaster(s, keys, ok) ==
  LET nm == "toggle_master" \in keys
      m == ~s.master
  IN IF nm /\ ~s.p_toggle_master
       THEN Save([s EXCEPT !.master = m,
                           !.visible = IF ~m /\ s.visible THEN FALSE ELSE @,
                           !.shown = IF ~m /\ s.visible THEN FALSE ELSE @,
                           !.fired = @ \cup {"toggle_master"},
                           !.p_toggle_master = nm], ok)
     ELSE [s EXCEPT !.p_toggle_master = nm]

\* _tick, lines 1380-1385: hide-overlay
TickHideOverlay(s, keys, ok) ==
  LET nh == "hide_overlay" \in keys
  IN IF nh /\ ~s.p_hide /\ s.visible
       THEN Save([s EXCEPT !.visible = FALSE, !.shown = FALSE,
                           !.fired = @ \cup {"hide_overlay"},
                           !.p_hide = nh], ok)
     ELSE [s EXCEPT !.p_hide = nh]

\* a toggle-overlay that does not record the pressed state it has seen
TickToggleOverlayNoFlag(s, keys, ok) ==
  LET nt == "toggle_overlay" \in keys
  IN IF nt /\ ~s.p_toggle_overlay
       THEN Save([s EXCEPT !.visible = ~s.visible, !.shown = ~s.visible,
                           !.fired = @ \cup {"toggle_overlay"}], ok)
     ELSE s

\* _tick, lines 1390-1397: toggle-overlay
TickToggleOverlay(s, keys, ok) ==
  LET nt == "toggle_overlay" \in keys
  IN IF nt /\ ~s.p_toggle_overlay
       THEN Save([s EXCEPT !.visible = ~s.visible, !.shown = ~s.visible,
                           !.fired = @ \cup {"toggle_overlay"},
                           !.p_toggle_overlay = nt], ok)
     ELSE [s EXCEPT !.p_toggle_overlay = nt]

\* _tick, lines 1400-1404: map switching, the first pressed map key wins
TickMapSwitch(s, keys, ok) ==
  LET i == IF "map_1" \in keys THEN 1
           ELSE IF "map_2" \in keys THEN 2
           ELSE IF "map_3" \in keys THEN 3
           ELSE IF "map_4" \in keys THEN 4
           ELSE 0
  IN IF s.visible /\ s.num_sw /\ i # 0
       THEN Then(Switch(s, MAPS[i], ok),
                 LAMBDA s1 :
                   IF s1.prof # s.prof
                     THEN [s1 EXCEPT !.fired =
                             @ \cup {<<"map_1", "map_2", "map_3", "map_4">>[i]}]
                   ELSE s1)
     ELSE s

\* _tick, lines 1409-1412: hide-hovered
TickHideHovered(s, keys, ok) ==
  LET hide_now == "hide_hovered" \in keys
  IN IF hide_now /\ ~s.p_hide_hovered
       THEN HideHovered([s EXCEPT !.fired = @ \cup {"hide_hovered"},
                                  !.p_hide_hovered = hide_now], ok)
     ELSE [s EXCEPT !.p_hide_hovered = hide_now]

\* _tick, lines 1406-1412: hover update, then hide-hovered
TickHover(s, keys, cur, ok) ==
  Then(TickHideHovered(IF s.visible THEN UpdateHover(s, cur) ELSE s, keys, ok),
       LAMBDA s2 : [s2 EXCEPT !.hoverFresh = s.visible /\ s2.hid = NoHover])

\* _tick, lines 1387-1412: an exception of the map switch ends the tick
TickMasterOn(s, keys, cur, ok) ==
  Then(TickMapSwitch(TickToggleOverlay(s, keys, ok), keys, ok),
       LAMBDA s4 : IF s4.raised THEN s4 ELSE TickHover(s4, keys, cur, ok))

\* _tick, run under _tick_safe
TickBody(s, keys, cur, ok) ==
  Then(TickHideOverlay(TickToggleMaster(s, keys, ok), keys, ok),
       LAMBDA s2 : IF ~s2.master THEN s2 ELSE TickMasterOn(s2, keys, cur, ok))

\* the sets of actions a tick may report pressed
KeySets(universe) == {k \in SUBSET universe : Cardinality(k) <= MaxKeysDown}

\* no operation recorded
NoLast ==
  [op |-> "none", arg |-> None, ok |-> TRUE, saves |-> 0, rects |-> 0, raised |-> FALSE]

\* the record of an operation: its name and argument, whether its writes
\* succeed, how often it called _save and _apply_rect, whether it raised
Last(opn, a, ok, s) ==
  [op |-> opn, arg |-> a, ok |-> ok, saves |-> s.saves, rects |-> s.rects,
   raised |-> s.raised]

\* a specification that records its operations passes track = TRUE
Track(track, opn, a, ok, s) ==
  IF track
    THEN /\ last' = Last(opn, a, ok, s)
         /\ writeFails' = writeFails + (IF ok THEN 0 ELSE 1)
  ELSE UNCHANGED <<last, writeFails>>

\* a timer that is stopped by a tick that raised
TickUnlessCrashed(keys, cur, ok, track, a) ==
  /\ ~last.raised
  /\ \E s \in {TickBody(Cur, keys, cur, ok)} :
        /\ Apply(s)
        /\ lastKeys' = keys
        /\ cursor' = cur
        /\ firedInHold' = {k \in keys : k \in s.fired \/ k \in firedInHold}
        /\ Track(track, "tick", a, ok, s)

\* a tick in which _bind_pressed reports the actions of keys; a is what the
\* specification records as the argument of the tick
TickStepAs(keys, cur, ok, track, a) ==
  \E s \in {TickBody(Cur, keys, cur, ok)} :
     /\ Apply(s)
     /\ lastKeys' = keys
     /\ cursor' = cur
     /\ firedInHold' = {k \in keys : k \in s.fired \/ k \in firedInHold}
     /\ Track(track, "tick", a, ok, s)

TickStep(keys, cur, ok, track) == TickStepAs(keys, cur, ok, track, None)

\* key(vk), for the set of virtual keys that are down
key(down, vk) == vk \in down

\* a _bind_pressed that asks for the modifiers of the binding of any action
BindPressedAllGated(bnds, name, down) ==
  LET b == Get(bnds, name, EmptyDict)
      vk == Get(b, "vk", 0)
  IN IF vk = 0 THEN FALSE
     ELSE /\ Get(b, "ctrl", name = "hide_hovered") => key(down, VK_CONTROL)
          /\ Get(b, "alt", name = "hide_hovered") => key(down, VK_MENU)
          /\ Get(b, "shift", name = "hide_hovered") => key(down, VK_SHIFT)
          /\ key(down, vk)

\* _bind_pressed
bind_pressed(bnds, name, down) ==
  LET b == Get(bnds, name, EmptyDict)
      vk == Get(b, "vk", 0)
  IN IF vk = 0 THEN FALSE
     ELSE IF name = "hide_hovered"
       THEN /\ Get(b, "ctrl", TRUE) => key(down, VK_CONTROL)
            /\ Get(b, "alt", TRUE) => key(down, VK_MENU)
            /\ Get(b, "shift", TRUE) => key(down, VK_SHIFT)
            /\ key(down, vk)
     ELSE key(down, vk)

\* the actions _bind_pressed reports pressed in a tick
PressedActions(bnds, down) == {a \in Actions : bind_pressed(bnds, a, down)}

\* Panel.editKeybind -> _edit_keybind, the dialog accepted with result b
EditKeybind(s, action, b, ok) ==
  IF action \notin DOMAIN s.binds THEN s
  ELSE Save([s EXCEPT !.binds[action] =
               IF action = "hide_hovered"
                 THEN Update(@, [vk |-> Get(b, "vk", @.vk),
                                 ctrl |-> Get(b, "ctrl", TRUE),
                                 alt |-> Get(b, "alt", TRUE),
                                 shift |-> Get(b, "shift", TRUE)])
               ELSE Update(@, [vk |-> Get(b, "vk", @.vk)])], ok)

Tick(keys, cur, ok) == TickStep(keys, cur, ok, FALSE)

\* bookkeeping of a step that is no tick
GuiStepAs(r, track, opn, a, ok) ==
  \E s \in {r} :
     /\ Apply(s)
     /\ UNCHANGED <<lastKeys, cursor, firedInHold>>
     /\ Track(track, opn, a, ok, s)

GuiStep(r) == GuiStepAs(r, FALSE, "none", None, TRUE)

\* Panel.mapSel -> switch
GuiSwitch(name, ok) == GuiStep(Switch(Cur, name, ok))

\* Panel.tnums -> _set_num_switch
SetNumSwitch(v, ok) == GuiStep(Save([Cur EXCEPT !.num_sw = v], ok))

\* Panel.typeToggled -> _type_toggle
TypeToggle(tkey, enabled, ok) ==
  GuiStep(IF tkey \in DOMAIN types
            THEN Save([Cur EXCEPT !.types[tkey].enabled = enabled], ok)
          ELSE Cur)

\* Panel.typeColorChanged -> _type_color
TypeColor(s, tkey, color, ok) ==
  IF tkey \in DOMAIN s.types
    THEN Save([s EXCEPT !.types[tkey] = Update(@, [color |-> color])], ok)
  ELSE s

\* Panel.scaleChanged -> _scale_changed
ScaleChanged(s, scale, ok) == Save([s EXCEPT !.global_scale = ClampScale(scale)], ok)

\* a reset of the colours that leaves the enabled flags as they are
ResetColorsKeepEnabled(s, ok) ==
  Save([s EXCEPT !.types =
          [k \in DOMAIN s.types |->
             IF k \in TypeSet
               THEN Update(s.types[k], [color |-> DefaultFill(k)])
             ELSE s.types[k]]], ok)

\* Panel.resetColors -> _reset_colors
ResetColors(s, ok) ==
  Save([s EXCEPT !.types =
          [k \in DOMAIN s.types |->
             IF k \in TypeSet
               THEN Update(s.types[k], [enabled |-> TRUE, color |-> DefaultFill(k)])
             ELSE s.types[k]]], ok)

\* Panel.resetConfig -> _reset_config_to_defaults
ResetBody(s, ok1, ok2, ok3) ==
  Then(load_or_replace_config(save_json(s.disk, build_default_config, ok1), ok2),
       LAMBDA ld :
         Then(LoadStateFromConfig([s EXCEPT !.data = ld[1], !.disk = ld[2]], ld[1]),
              LAMBDA s1 :
                IF s1.raised THEN s1
                ELSE Then(ApplyRect(s1),
                          LAMBDA s2 :
                            IF s2.raised THEN s2
                            ELSE Save([s2 EXCEPT !.shown = s2.visible /\ s2.master], ok3))))

ResetConfigToDefaults(ok1, ok2, ok3) == GuiStep(ResetBody(Cur, ok1, ok2, ok3))


(***************************************************************************)
(* Start-up and the specifications                                         *)
(***************************************************************************)
\* a version-matching stored document: the default one with the given flags,
\* and the rectangle of the second map malformed or not
StoredDoc(mo, vo, bad) ==
  [build_default_config EXCEPT
     !.settings.master_on = mo,
     !.settings.visible_overlay = vo,
     !.profiles[MAPS[2]] = IF bad THEN MalformedRatio ELSE @]

\* config.json at start-up: missing, or a stored document
InitDisks ==
  {{}} \cup {{StoredDoc(mo, vo, FALSE)} : mo \in BOOLEAN, vo \in BOOLEAN}
       \cup {{StoredDoc(TRUE, FALSE, TRUE)}}

Blank ==
  [master |-> FALSE, visible |-> FALSE, shown |-> FALSE, prof |-> MAPS[1],
   num_sw |-> FALSE, global_scale |-> 100, minimize_to_tray |-> FALSE,
   binds |-> default_keybinds, types |-> DefaultTypes,
   hidden_sets |-> [k \in TypeSet |-> {}],
   rect |-> [left |-> 0, top |-> 0, w |-> 1, h |-> 1], hover |-> NoHover,
   p_toggle_master |-> FALSE, p_hide |-> FALSE,
   p_toggle_overlay |-> FALSE, p_hide_hovered |-> FALSE,
   data |-> build_default_config, disk |-> {},
   fired |-> {}, hid |-> NoHover, raised |-> FALSE, hoverFresh |-> FALSE,
   saves |-> 0, rects |-> 0]

\* Overlay.__init__, lines 859-922
Startup(dsk, ok) ==
  Then(load_or_replace_config(dsk, ok),
       LAMBDA ld :
         Then(LoadStateFromConfig([Blank EXCEPT !.data = ld[1], !.disk = ld[2]], ld[1]),
              LAMBDA s1 :
                IF s1.raised THEN s1
                ELSE Save([s1 EXCEPT !.shown = s1.visible /\ s1.master], ok)))

InitFromAs(r, l, wf) ==
  \E s \in {r} :
  /\ ~s.raised
  /\ last = l
  /\ writeFails = wf
  /\ global_scale = s.global_scale
  /\ minimize_to_tray = s.minimize_to_tray
  /\ binds = s.binds
  /\ master = s.master
  /\ visible = s.visible
  /\ shown = s.shown
  /\ prof = s.prof
  /\ num_sw = s.num_sw
  /\ types = s.types
  /\ hidden_sets = s.hidden_sets
  /\ rect = s.rect
  /\ hover = s.hover
  /\ p_toggle_master = s.p_toggle_master
  /\ p_hide = s.p_hide
  /\ p_toggle_overlay = s.p_toggle_overlay
  /\ p_hide_hovered = s.p_hide_hovered
  /\ data = s.data
  /\ disk = s.disk
  /\ lastKeys = {}
  /\ cursor = CursorFar
  /\ fired = {}
  /\ hid = NoHover
  /\ hoverFresh = FALSE
  /\ firedInHold = {}

InitFrom(r) == InitFromAs(r, NoLast, 0)

Init == \E dsk \in InitDisks : InitFrom(Startup(dsk, TRUE))

\* The hotkey state machine: the keys of the four transitions and of the first
\* two maps, up to MaxKeysDown at once, the cursor away from every point; map
\* selection, number-switch and reset from the panel.
KeyActions == Actions \ {"map_3", "map_4"}

NextKeys ==
  \/ \E keys \in KeySets(KeyActions) : Tick(keys, CursorFar, TRUE)
  \/ \E name \in MapSet : GuiSwitch(name, TRUE)
  \/ \E v \in BOOLEAN : SetNumSwitch(v, TRUE)
  \/ ResetConfigToDefaults(TRUE, TRUE, TRUE)

Spec == Init /\ [][NextKeys]_vars

\* Hover and hiding: the keys of the first map and its points under the
\* cursor; category toggles, map selection and reset from the panel.
HoverActions == {"toggle_master", "toggle_overlay", "hide_overlay", "hide_hovered"}

HoverCursors == {CursorOnTower, CursorAtRadius, CursorBeyondRadius}

HoverToggles == {"towers"}

InitHover == InitFrom(Startup({}, TRUE))

NextHover ==
  \/ \E keys \in KeySets(HoverActions), cur \in HoverCursors : Tick(keys, cur, TRUE)
  \/ \E tkey \in HoverToggles, en \in BOOLEAN : TypeToggle(tkey, en, TRUE)
  \/ ResetConfigToDefaults(TRUE, TRUE, TRUE)

SpecHover == InitHover /\ [][NextHover]_vars

\* A tick that is aborted: the stored rectangle of the second map is
\* malformed, so the map-2 key makes _apply_rect raise inside the tick; the
\* overlay starts visible, the cursor is on the tower of the first map or on
\* the armory of the second.
AbortKeys == {"hide_hovered", "toggle_overlay", "map_2"}

AbortCursors == {CursorOnTower, CursorOnArmory}

InitAbort == InitFrom(Startup({StoredDoc(TRUE, TRUE, TRUE)}, TRUE))

NextAbort ==
  \E keys \in KeySets(AbortKeys), cur \in AbortCursors : Tick(keys, cur, TRUE)

SpecAbort == InitAbort /\ [][NextAbort]_vars

\* The timer: the ticks of SpecAbort, recorded in last. The timer of
\* Overlay.__init__ fires every 16 ms for as long as the program runs, so the
\* tick that follows a tick ended by an exception is eventually run.
InitTimer ==
  \E s \in {Startup({StoredDoc(TRUE, TRUE, TRUE)}, TRUE)} :
     InitFromAs(s, Last("init", None, TRUE, s), 0)

NextTimer ==
  \E keys \in KeySets(AbortKeys), cur \in AbortCursors :
     TickStepAs(keys, cur, TRUE, TRUE, None)

\* the tick of the timer interval that follows a tick ended by an exception
TickAfterRaise == (last.op = "tick" /\ last.raised) /\ NextTimer

SpecTimer == InitTimer /\ [][NextTimer]_vars /\ WF_vars(TickAfterRaise)

\* Map selection and hide-overlay, with the operations recorded in last: the
\* keys of toggle-master, toggle-overlay, hide-overlay and of the second map;
\* direct selection and the number switch from the panel; every write
\* succeeds.
SelectKeys == {"toggle_master", "toggle_overlay", "hide_overlay", "map_2"}

SelectMaps == {MAPS[1], MAPS[2]}

InitSelect ==
  \E dsk \in InitDisks :
     \E s \in {Startup(dsk, TRUE)} : InitFromAs(s, Last("init", None, TRUE, s), 0)

NextSelect ==
  \/ \E keys \in KeySets(SelectKeys) : TickStep(keys, CursorFar, TRUE, TRUE)
  \/ \E name \in SelectMaps :
        GuiStepAs(Switch(Cur, name, TRUE), TRUE, "switch", name, TRUE)
  \/ \E v \in BOOLEAN :
        GuiStepAs(Save([Cur EXCEPT !.num_sw = v], TRUE), TRUE, "set_num_switch", None, TRUE)

SpecSelect == InitSelect /\ [][NextSelect]_vars

\* The configuration store: writes to config.json may fail, up to
\* MaxFailedWrites operations; the file found at start-up may be missing,
\* unparseable, no object, or of another version; the program may be closed
\* and started again.  Operations are recorded in last.
OldVersionDoc ==
  [StoredDoc(FALSE, FALSE, FALSE) EXCEPT
     !.version = "1.0.0", !.settings.selected_map = MAPS[2]]

UnversionedDoc == [settings |-> StoredDoc(TRUE, TRUE, FALSE).settings]

StoreDisks ==
  InitDisks \cup {{Unparseable}, {NonObject}, {OldVersionDoc}, {UnversionedDoc}}

StoreKeys == {"toggle_master", "toggle_overlay", "map_2"}

StoreMaps == {MAPS[1], MAPS[2]}

\* a write may fail while the failures so far are below the bound
MayWrite(ok) == ok \/ writeFails < MaxFailedWrites

\* the program is closed and started again: Overlay.__init__ on the file
Restart(ok) ==
  \E s \in {Startup(disk, ok)} :
     /\ ~s.raised
     /\ Apply(s)
     /\ lastKeys' = {}
     /\ cursor' = CursorFar
     /\ firedInHold' = {}
     /\ Track(TRUE, "restart", FileKind(disk), ok, s)

InitStore ==
  \E dsk \in StoreDisks, ok \in BOOLEAN :
     \E s \in {Startup(dsk, ok)} :
        InitFromAs(s, Last("init", None, ok, s), IF ok THEN 0 ELSE 1)

NextStore ==
  \/ \E keys \in KeySets(StoreKeys), ok \in BOOLEAN :
        MayWrite(ok) /\ TickStep(keys, CursorFar, ok, TRUE)
  \/ \E name \in StoreMaps, ok \in BOOLEAN :
        MayWrite(ok) /\ GuiStepAs(Switch(Cur, name, ok), TRUE, "switch", name, ok)
  \/ \E v \in BOOLEAN, ok \in BOOLEAN :
        MayWrite(ok)
        /\ GuiStepAs(Save([Cur EXCEPT !.num_sw = v], ok), TRUE, "set_num_switch", None, ok)
  \/ \E ok1 \in BOOLEAN, ok3 \in BOOLEAN :
        MayWrite(ok1 /\ ok3)
        /\ GuiStepAs(ResetBody(Cur, ok1, ok1, ok3), TRUE, "reset", None, ok1 /\ ok3)
  \/ \E ok \in BOOLEAN : MayWrite(ok) /\ Restart(ok)

SpecStore == InitStore /\ [][NextStore]_vars

\* Loading stored documents: config.json holds a version-matching document
\* that lacks up to MaxMissing of its keys and carries keys the program does
\* not know (x_note, x_action, x_cat) at every level; the program is
\* started, the tray option is set from the panel, and the program is
\* started again.  Operations are recorded in last, the document found at
\* start-up as the argument of "init".
RichDoc ==
  [version |-> CONFIG_VERSION,
   x_note |-> "kept",
   profiles |-> build_default_config.profiles,
   settings |->
     [enable_num_switch |-> FALSE,
      selected_map |-> MAPS[2],
      visible_overlay |-> TRUE,
      master_on |-> TRUE,
      global_scale |-> 250,
      minimize_to_tray |-> TRUE,
      keybinds |->
        [map_1 |-> [vk |-> 53, x_note |-> "kept"],
         hide_hovered |-> [vk |-> 88, ctrl |-> FALSE],
         x_action |-> [vk |-> 7]],
      types |->
        [towers |-> [enabled |-> FALSE, color |-> <<"rgb", 1, 2, 3>>, x_note |-> "kept"],
         x_cat |-> [enabled |-> FALSE]],
      hidden |-> [towers |-> {<<4095, 0>>}, x_cat |-> {<<1, 1>>}],
      x_note |-> "kept"]]

\* the keys a stored document may lack, as paths from the top of the document
DropPaths ==
  {<<"profiles">>, <<"settings">>}
  \cup {<<"settings", k>> :
          k \in {"enable_num_switch", "selected_map", "visible_overlay", "master_on",
                 "global_scale", "keybinds", "types", "hidden"}}
  \cup {<<"settings", "keybinds", "map_1", "vk">>,
        <<"settings", "keybinds", "hide_hovered", "ctrl">>,
        <<"settings", "types", "towers">>,
        <<"settings", "types", "towers", "enabled">>,
        <<"settings", "types", "towers", "color">>,
        <<"settings", "hidden", "towers">>}

\* the document d without the keys at the given paths
RECURSIVE Without(_, _)
Without(d, paths) ==
  [k \in DOMAIN d \ {p[1] : p \in {q \in paths : Len(q) = 1}} |->
     LET sub == {Tail(p) : p \in {q \in paths : Len(q) > 1 /\ q[1] = k}}
     IN IF sub = {} THEN d[k] ELSE Without(d[k], sub)]

\* global_scale values a stored document may hold, in hundredths
StoredScales == {1, 250, 900}

LoadDocs ==
  {Without([RichDoc EXCEPT !.settings.global_scale = sc], paths) :
     sc \in StoredScales,
     paths \in {ps \in SUBSET DropPaths : Cardinality(ps) <= MaxMissing}}

\* Panel.minimizeToTrayChanged -> _set_minimize_to_tray
SetMinimizeToTray(v, ok) ==
  GuiStepAs(Save([Cur EXCEPT !.minimize_to_tray = v], ok),
            TRUE, "set_minimize_to_tray", v, ok)

InitLoad ==
  \E d \in LoadDocs :
     \E s \in {Startup({d}, TRUE)} : InitFromAs(s, Last("init", d, TRUE, s), 0)

NextLoad ==
  \/ \E v \in BOOLEAN : SetMinimizeToTray(v, TRUE)
  \/ Restart(TRUE)

SpecLoad == InitLoad /\ [][NextLoad]_vars

\* The panel: the scale, the colour and the enabled flag of the towers, the
\* reset of the colours and the reset of the configuration, on a program
\* started without config.json or with a stored document of any scale.
\* Operations are recorded in last; the argument recorded for the reset of
\* the colours is the set of categories that were not at their defaults.
PanelScales == {1, 10, 137, 500, 900}

PanelColors == {<<"rgb", 9, 9, 9>>}

PanelTypes == {"towers"}

PanelDisks == {{}} \cup {{[RichDoc EXCEPT !.settings.global_scale = sc]} : sc \in StoredScales}

NotAtDefault == {k \in TypeSet : types[k] # DefaultTypes[k]}

InitPanel ==
  \E dsk \in PanelDisks :
     \E s \in {Startup(dsk, TRUE)} : InitFromAs(s, Last("init", None, TRUE, s), 0)

NextPanel ==
  \/ \E sc \in PanelScales :
        GuiStepAs(ScaleChanged(Cur, sc, TRUE), TRUE, "scale_changed", sc, TRUE)
  \/ \E tkey \in PanelTypes, c \in PanelColors :
        GuiStepAs(TypeColor(Cur, tkey, c, TRUE), TRUE, "type_color", tkey, TRUE)
  \/ \E tkey \in PanelTypes, en \in BOOLEAN :
        GuiStepAs(IF tkey \in DOMAIN types
                    THEN Save([Cur EXCEPT !.types[tkey].enabled = en], TRUE)
                  ELSE Cur,
                  TRUE, "type_toggle", tkey, TRUE)
  \/ GuiStepAs(ResetColors(Cur, TRUE), TRUE, "reset_colors", NotAtDefault, TRUE)
  \/ GuiStepAs(ResetBody(Cur, TRUE, TRUE, TRUE), TRUE, "reset", None, TRUE)

SpecPanel == InitPanel /\ [][NextPanel]_vars

\* The keyboard: a tick sees a set of virtual keys down, Tab, Delete and the
\* three modifiers, and _bind_pressed decides which actions are pressed.  The
\* stored toggle-overlay binding carries ctrl, alt and shift, the stored
\* toggle-master binding has virtual key 0; hide-hovered and toggle-overlay
\* are rebound from the panel to Tab or Delete with the modifiers held in the
\* capture dialog.  A tick records the keys down as its argument.
PhysKeys == {9, 46, VK_SHIFT, VK_CONTROL, VK_MENU}

BindActions == {"hide_hovered", "toggle_overlay"}

\* KeyCaptureDialog._poll: a key that is no modifier, with the modifiers held
Captured ==
  {[vk |-> vk, ctrl |-> c, alt |-> a, shift |-> sh] :
     vk \in PhysKeys \ {VK_SHIFT, VK_CONTROL, VK_MENU},
     c \in BOOLEAN, a \in BOOLEAN, sh \in BOOLEAN}

BindDoc ==
  [StoredDoc(TRUE, TRUE, FALSE) EXCEPT
     !.settings.keybinds =
        [toggle_overlay |-> [vk |-> 9, ctrl |-> TRUE, alt |-> TRUE, shift |-> TRUE],
         toggle_master |-> [vk |-> 0]]]

InitBind ==
  \E s \in {Startup({BindDoc}, TRUE)} : InitFromAs(s, Last("init", None, TRUE, s), 0)

NextBind ==
  \/ \E down \in SUBSET PhysKeys :
        TickStepAs(PressedActions(binds, down), CursorFar, TRUE, TRUE, down)
  \/ \E action \in BindActions, b \in Captured :
        GuiStepAs(EditKeybind(Cur, action, b, TRUE), TRUE, "edit_keybind", action, TRUE)

SpecBind == InitBind /\ [][NextBind]_vars

\* Hiding and painting on the third map, whose towers at 4094.0 and 4094.5
\* round to the same coordinates and whose armory is at the coordinates of a
\* tower: the program starts visible on that map, with master and the towers
\* on or off as stored, and the cursor on the towers; the keys of
\* hide-hovered and toggle-overlay, map selection and reset from the panel.
\* Operations are recorded in last.
HideKeys == {"hide_hovered", "toggle_overlay"}

HideMaps == {MAPS[1], MAPS[3]}

HideDisks ==
  {{[StoredDoc(mo, TRUE, FALSE) EXCEPT
       !.settings.selected_map = MAPS[3],
       !.settings.types = [k \in {"towers"} |-> [enabled |-> en]]]} :
     mo \in BOOLEAN, en \in BOOLEAN}

InitHide ==
  \E dsk \in HideDisks :
     \E s \in {Startup(dsk, TRUE)} : InitFromAs(s, Last("init", None, TRUE, s), 0)

NextHide ==
  \/ \E keys \in KeySets(HideKeys) : TickStep(keys, CursorOnTower, TRUE, TRUE)
  \/ \E name \in HideMaps :
        GuiStepAs(Switch(Cur, name, TRUE), TRUE, "switch", name, TRUE)
  \/ GuiStepAs(ResetBody(Cur, TRUE, TRUE, TRUE), TRUE, "reset", None, TRUE)

SpecHide == InitHide /\ [][NextHide]_vars

\* Building the point cache: the block of one map of data.json is drawn, and
\* _build_points_for_map is applied to it.  A block has a towers list of up
\* to MaxRecords entries of any form, or lists of well-formed entries for
\* towers, big_towers and armories.  The block is recorded in last as the
\* argument and the points built as out.
RawEntries ==
  {[kind |-> "scalar"],
   [kind |-> "dict", c |-> [kind |-> "absent"]],
   [kind |-> "dict", c |-> [kind |-> "list", items |-> <<Num(2)>>]],
   [kind |-> "dict", c |-> [kind |-> "number", v |-> 5]],
   [kind |-> "dict", c |-> [kind |-> "list", items |-> <<NotNum, Num(4)>>]],
   Poi(8190, 0),
   Poi(2, 4)}

\* the lists of up to n entries of the set S
ListsOf(S, n) == UNION {[1..k -> S] : k \in 0..n}

EmptyBlock == [cat \in TypeSet |-> << >>]

DataBlocks ==
  {[EmptyBlock EXCEPT !["towers"] = l] : l \in ListsOf(RawEntries, MaxRecords)}
  \cup {[EmptyBlock EXCEPT !["towers"] = t, !["big_towers"] = b, !["armories"] = a] :
          t \in ListsOf({Poi(8190, 0), Poi(2, 4)}, MaxRecords - 1),
          b \in ListsOf({Poi(2, 4)}, MaxRecords - 1),
          a \in ListsOf({Poi(8190, 0)}, MaxRecords - 1)}

InitData ==
  \E block \in DataBlocks :
     InitFromAs(Startup({}, TRUE), [NoLast EXCEPT !.op = "load_json", !.arg = block], 0)

\* Overlay._rebuild_all_caches, for one map
RebuildCache ==
  /\ last.op = "load_json"
  /\ \E r \in {BuildPoints(last.arg)} :
        last' = [op |-> "build_points_for_map", arg |-> last.arg, ok |-> TRUE,
                 saves |-> 0, rects |-> 0, raised |-> r.raised, out |-> r.out]
  /\ UNCHANGED <<progVars, lastKeys, cursor, fired, hid, hoverFresh, firedInHold,
                 writeFails>>

NextData == RebuildCache

SpecData == InitData /\ [][NextData]_vars

\* The hidden sets: config.json holds a document of the third map, visible
\* and with master on, whose settings have no hidden group, an empty one, or
\* one with or without the pre-seeded identifiers; hide-hovered and
\* toggle-overlay with the cursor on the towers, map selection, and reset,
\* whose writes may fail.  Operations are recorded in last.
SeedHidden ==
  {EmptyDict,
   [k \in {"possible_xp"} |-> {}],
   [k \in {"possible_xp"} |-> {<<"armories", 1508, 2096>>}],
   [possible_xp |-> {<<"towers", 1, 1>>}, towers |-> {<<1, 1>>}]}

SeedDoc == [StoredDoc(TRUE, TRUE, FALSE) EXCEPT !.settings.selected_map = MAPS[3]]

SeedDisks ==
  {{Without(SeedDoc, {<<"settings", "hidden">>})}}
    \cup {{[SeedDoc EXCEPT !.settings.hidden = h]} : h \in SeedHidden}

InitSeed ==
  \E dsk \in SeedDisks :
     \E s \in {Startup(dsk, TRUE)} : InitFromAs(s, Last("init", None, TRUE, s), 0)

NextSeed ==
  \/ \E keys \in KeySets(HideKeys) : TickStep(keys, CursorOnTower, TRUE, TRUE)
  \/ \E name \in HideMaps :
        GuiStepAs(Switch(Cur, name, TRUE), TRUE, "switch", name, TRUE)
  \/ \E ok \in BOOLEAN :
        MayWrite(ok) /\ GuiStepAs(ResetBody(Cur, ok, ok, ok), TRUE, "reset", None, ok)

SpecSeed == InitSeed /\ [][NextSeed]_vars

\* The coordinate transform on its own: a source coordinate pair, in halves,
\* on the grid, at its edges and up to EdgeReach halves outside them.
EdgeReach == 2

GridCoords ==
  (-EdgeReach .. EdgeReach) \cup {GRID - 1, GRID, GRID + 1}
    \cup (2 * GRID - EdgeReach .. 2 * GRID + EdgeReach)

InitGrid ==
  \E x \in GridCoords, y \in GridCoords :
     InitFromAs(Startup({}, TRUE), [NoLast EXCEPT !.op = "coords", !.arg = <<x, y>>], 0)

Rotate ==
  /\ last.op = "coords"
  /\ last' = [op |-> "rotate90cw_norm", arg |-> last.arg, ok |-> TRUE,
              saves |-> 0, rects |-> 0, raised |-> FALSE,
              out |-> rotate90cw_norm(last.arg[1], last.arg[2])]
  /\ UNCHANGED <<progVars, lastKeys, cursor, fired, hid, hoverFresh, firedInHold,
                 writeFails>>

NextGrid == Rotate

SpecGrid == InitGrid /\ [][NextGrid]_vars

\* The aspect detection on its own: a screen size as screenWH may report it,
\* with the ratios on, just under and just over both thresholds.
ScreenWidths ==
  {0, 21, 22, 23, 31, 32, 33, 100, 1920, 2375, 2376, 2560, 3440, 3455, 3456, 3840, 5120}

ScreenHeights == {-1, 0, 1, 10, 1080, 1440}

InitAspect ==
  \E w \in ScreenWidths, h \in ScreenHeights :
     InitFromAs(Startup({}, TRUE), [NoLast EXCEPT !.op = "screenWH", !.arg = <<w, h>>], 0)

DetectAspect ==
  /\ last.op = "screenWH"
  /\ last' = [op |-> "detect_aspect_label", arg |-> last.arg, ok |-> TRUE,
              saves |-> 0, rects |-> 0, raised |-> FALSE,
              out |-> detect_aspect_label(last.arg[1], last.arg[2])]
  /\ UNCHANGED <<progVars, lastKeys, cursor, fired, hid, hoverFresh, firedInHold,
                 writeFails>>

NextAspect == DetectAspect

SpecAspect == InitAspect /\ [][NextAspect]_vars


(***************************************************************************)
(* Properties                                                              *)
(***************************************************************************)
\* the key of action a is seen down in this tick and was up in the tick before
Pressed(a) == a \notin lastKeys /\ a \in lastKeys'

\* C1: in every reachable state the controller is in one of MasterOff,
\* MasterOn+Hidden, MasterOn+Visible: the visible flag is never true while
\* master is off.
C1_VisibleImpliesMaster == ~(~master /\ visible)

\* C2: a toggle-master press in MasterOff leads to MasterOn+Hidden (to
\* MasterOn+Visible only through a toggle-overlay that fires in the same tick),
\* and a toggle-master press with master on leads to MasterOff with the visible
\* flag false.
C2_ToggleMaster ==
  [][Pressed("toggle_master") =>
       IF ~master
         THEN master' /\ ("toggle_overlay" \notin fired' => ~visible')
       ELSE ~master' /\ ~visible']_vars

\* C3: a hide-hovered press inserts an identifier into a hidden set only when
\* the controller is in MasterOn+Visible in that tick (at its start or when
\* the press is handled, which is the state the tick ends in).
C3_HideOnlyWhenVisible ==
  [][hid' # NoHover => (master /\ visible) \/ (master' /\ visible')]_vars

\* C4: after every tick and every panel event, if master is off or the overlay
\* is not visible, the current hover target is none.
C4_NoHoverUnlessVisible == (~master \/ ~visible) => hover = NoHover


\* the points that qualify for the hover in the current state, as indices into
\* HoverItems(prof): enabled category, not hidden, within the radius of cursor
Qualifying ==
  {i \in 1..Len(HoverItems(prof)) :
     LET it == HoverItems(prof)[i]
         o == Offset(rect, cursor, PointOf(it))
     IN /\ types[it.type].enabled
        /\ ~IsHidden(hidden_sets, it.type, PointOf(it))
        /\ InBox(o)
        /\ D2Leq(D2(o), RadiusD2)}

\* those of them at the minimum squared distance
Nearest ==
  {i \in Qualifying :
     \A j \in Qualifying :
       D2Leq(D2(Offset(rect, cursor, PointOf(HoverItems(prof)[i]))),
             D2(Offset(rect, cursor, PointOf(HoverItems(prof)[j]))))}

FirstNearest == HoverItems(prof)[CHOOSE i \in Nearest : \A j \in Nearest : i <= j]

LastNearest == HoverItems(prof)[CHOOSE i \in Nearest : \A j \in Nearest : i >= j]

\* C5 as stated: among the qualifying points at the same minimum squared
\* distance the hover target is the first in category-then-insertion order.
C5_FirstWins ==
  hoverFresh => hover = IF Nearest = {} THEN NoHover ELSE FirstNearest

\* C5 as amended: among the qualifying points at the same minimum squared
\* distance the hover target is the last in category-then-insertion order.
C5_LastWins ==
  hoverFresh => hover = IF Nearest = {} THEN NoHover ELSE LastNearest

\* a tower under the cursor qualifies as possible_xp and as towers, at the same
\* distance, and the hover is the one of towers
C5_Witness ==
  /\ hoverFresh
  /\ Cardinality({HoverItems(prof)[i].type : i \in Nearest}) >= 2
  /\ hover = LastNearest
  /\ hover # FirstNearest

\* C6: hiding a hovered point adds its identifier to the hidden set of the
\* hovered category only; hidden as possible_xp, the point's state in its
\* source category is unchanged, and hidden in its source category, its state
\* in possible_xp is unchanged.
C6_HidePerCategory ==
  [][hid' # NoHover =>
       LET tkey == hid'.type
           pt == PointOf(hid')
       IN /\ hidden_sets'[tkey] = hidden_sets[tkey] \cup {HiddenKey(tkey, pt)}
          /\ \A c \in TypeSet \ {tkey} : hidden_sets'[c] = hidden_sets[c]
          /\ tkey = "possible_xp" =>
               IsHidden(hidden_sets', pt.src, pt) = IsHidden(hidden_sets, pt.src, pt)
          /\ tkey # "possible_xp" =>
               IsHidden(hidden_sets', "possible_xp", pt)
                 = IsHidden(hidden_sets, "possible_xp", pt)]_vars

\* a tower was hidden while hovered as possible_xp and is not hidden in towers
C6_Witness ==
  /\ hid # NoHover
  /\ hid.type = "possible_xp"
  /\ IsHidden(hidden_sets, "possible_xp", PointOf(hid))
  /\ ~IsHidden(hidden_sets, PointOf(hid).src, PointOf(hid))


EdgeActions == {"toggle_master", "hide_overlay", "toggle_overlay", "hide_hovered"}

MapKeys == {"map_1", "map_2", "map_3", "map_4"}

\* C7: while the key of toggle-master, hide-overlay, toggle-overlay or
\* hide-hovered stays down over consecutive ticks, the action's transition
\* fires at most once: an action that has fired since its key was last seen up
\* does not fire in a tick that sees the key down.
C7_FiresOncePerHold ==
  [][\A a \in EdgeActions :
       (a \in firedInHold /\ a \in lastKeys') => a \notin fired']_vars

\* toggle-overlay stayed down, without firing again, through a tick in which
\* toggle-master switched master back on
C7_Witness ==
  /\ "toggle_overlay" \in firedInHold
  /\ "toggle_overlay" \in lastKeys
  /\ fired = {"toggle_master"}
  /\ master

\* C8: the selected map changes through a map key only in a tick where that
\* key goes from up to down.
C8_MapSelectOnEdge ==
  [][\A k \in MapKeys : k \in fired' => Pressed(k)]_vars

\* C9: the stored previous-pressed flag of each action equals that action's
\* pressed state in the latest tick, also for ticks that ran while master was
\* off.
C9_FlagsTrackKeys ==
  /\ p_toggle_master = ("toggle_master" \in lastKeys)
  /\ p_hide = ("hide_overlay" \in lastKeys)
  /\ p_toggle_overlay = ("toggle_overlay" \in lastKeys)
  /\ p_hide_hovered = ("hide_hovered" \in lastKeys)

\* C10: a toggle-overlay press in MasterOn+Hidden yields MasterOn+Visible and
\* one in MasterOn+Visible yields MasterOn+Hidden; in MasterOff it changes
\* neither master nor the visible flag.  (Ticks in which toggle-master or
\* hide-overlay fire first are left aside: there the press meets another state.)
C10_ToggleOverlay ==
  [][(Pressed("toggle_overlay") /\ fired' \cap {"toggle_master", "hide_overlay"} = {}) =>
       IF master
         THEN master' /\ visible' = ~visible
       ELSE ~master' /\ visible' = visible]_vars

\* the in-memory state of the controller, the edge flags aside
memVars ==
  <<master, visible, shown, prof, num_sw, global_scale, minimize_to_tray, binds,
    types, hidden_sets, rect, hover, data>>

\* a tick that sees the key of action a go down and no other key down
PressedAlone(a) == lastKeys' = {a} /\ Pressed(a)

\* C11: a hide-overlay press takes MasterOn+Visible to MasterOn+Hidden; in
\* every other state it is a no-op: it changes neither master nor any other
\* in-memory state, does not make the overlay visible and triggers no persist.
C11_HideOverlay ==
  [][PressedAlone("hide_overlay") =>
       IF master /\ visible
         THEN master' /\ ~visible' /\ ~shown'
       ELSE /\ UNCHANGED memVars
            /\ UNCHANGED disk
            /\ last'.saves = 0]_vars

\* the map a map key names
MapOfKey(k) ==
  CASE k = "map_1" -> MAPS[1] [] k = "map_2" -> MAPS[2]
    [] k = "map_3" -> MAPS[3] [] k = "map_4" -> MAPS[4]

\* a direct selection from the panel naming a map other than the selected one
DirectSelect == last'.op = "switch" /\ last'.arg \in MapSet /\ last'.arg # prof

\* C12 as stated: a map-select request, by hotkey or by direct selection,
\* naming one of the four maps other than the selected one changes the
\* selected map in every state of the controller.
C12_SwitchInAnyState ==
  [][/\ DirectSelect => prof' = last'.arg
     /\ \A k \in MapKeys :
          (PressedAlone(k) /\ MapOfKey(k) # prof) => prof' = MapOfKey(k)]_vars

\* C12 as amended: a direct selection naming another map changes the selected
\* map in every state; a map hotkey changes it in MasterOn+Visible with the
\* number switch on, and leaves it unchanged in MasterOff, in MasterOn+Hidden
\* and with the number switch off.
C12_SwitchWhereAccepted ==
  [][/\ DirectSelect => prof' = last'.arg
     /\ \A k \in MapKeys :
          /\ k \in fired' => master' /\ visible' /\ num_sw'
          /\ (PressedAlone(k) /\ MapOfKey(k) # prof) =>
               prof' = IF master /\ visible /\ num_sw THEN MapOfKey(k) ELSE prof]_vars

\* a direct selection has changed the selected map while master was off
C12_Witness ==
  /\ last.op = "switch"
  /\ last.arg = prof
  /\ last.rects = 1
  /\ ~master

\* C13: every map-select request that selects another of the four maps, by
\* direct selection or by hotkey, triggers a rectangle recomputation and a
\* persist of the document (which then names the selected map, when the
\* write succeeds).
C13_SwitchRecomputesAndPersists ==
  [][(last'.op \in {"switch", "tick"} /\ prof' # prof) =>
       /\ last'.rects >= 1
       /\ last'.saves >= 1
       /\ data'.settings.selected_map = prof'
       /\ last'.ok => disk' = {data'}]_vars

\* C14: in MasterOn+Visible a hide-hovered press with a non-empty hover target
\* (the one the tick resolves under the cursor) inserts the target's hide
\* identifier into the hidden set of the target's category, clears the hover
\* and persists; master, visible, the selected map, every other hidden set
\* and every category's enabled/color state are unchanged.  With an empty
\* hover target the press changes nothing.
C14_HideHovered ==
  [][(PressedAlone("hide_hovered") /\ master /\ visible) =>
       LET h == UpdateHover(Cur, cursor').hover
       IN /\ UNCHANGED <<master, visible, prof, types>>
          /\ hover' = NoHover
          /\ IF h # NoHover
               THEN /\ hidden_sets' =
                         [hidden_sets EXCEPT
                            ![h.type] = @ \cup {HiddenKey(h.type, PointOf(h))}]
                    /\ hid' = h
                    /\ data'.settings.hidden = hidden_sets'
                    /\ disk' = {data'}
             ELSE UNCHANGED <<hidden_sets, data, disk>>]_vars

\* C15: in MasterOn+Visible the hover resolver returns none exactly when no
\* point of the selected map in an enabled category, not in that category's
\* hidden set, lies at squared distance <= hover_radius^2 from the cursor;
\* otherwise it returns such a point at the minimum squared distance.  (So a
\* point of a disabled category or a hidden one is never the target, a point
\* exactly at the radius qualifies and one beyond it does not.)
C15_HoverResolution ==
  hoverFresh =>
    /\ hover = NoHover <=> Qualifying = {}
    /\ hover # NoHover => \E i \in Nearest : HoverItems(prof)[i] = hover

\* the spawn is the hover target with the cursor exactly hover_radius away
C15_Witness ==
  /\ hoverFresh
  /\ cursor = CursorAtRadius
  /\ hover # NoHover
  /\ hover.type = "spawns"
  /\ D2(Offset(rect, cursor, PointOf(hover))) = <<0, RadiusD2[1]>>

\* C16: with every write succeeding, after every operation the stored
\* document's settings equal the in-memory state: no reachable state has an
\* in-memory change of a persisted field that has not been saved.
C16_StoredEqualsMemory ==
  /\ disk = {data}
  /\ data.settings.master_on = master
  /\ data.settings.visible_overlay = visible
  /\ data.settings.selected_map = prof
  /\ data.settings.enable_num_switch = num_sw
  /\ data.settings.global_scale = global_scale
  /\ data.settings.minimize_to_tray = minimize_to_tray
  /\ data.settings.keybinds = binds
  /\ data.settings.types = types
  /\ data.settings.hidden = hidden_sets

\* the persisted in-memory fields hold what a fresh default document gives
AtDefaults ==
  /\ master /\ ~visible
  /\ prof = MAPS[1]
  /\ num_sw /\ ~minimize_to_tray
  /\ global_scale = 100
  /\ binds = default_keybinds
  /\ types = DefaultTypes
  /\ hidden_sets =
       [k \in TypeSet |-> IF k = "possible_xp" THEN DEFAULT_HIDDEN_POSSIBLE_XP ELSE {}]

\* C17: after a reset to defaults, from any reachable state and whether or not
\* the writes to config.json succeed, the in-memory state equals the one
\* derived from a fresh default document: master on, overlay hidden, first
\* map, scale 1.00, default keybinds, every category enabled with its default
\* color, hidden sets empty but for the two pre-seeded identifiers.
C17_ResetUnconditional == [][last'.op = "reset" => AtDefaults']_vars

\* the step leaves in memory what the operation result s holds
SameInMemory(s) ==
  /\ master' = s.master /\ visible' = s.visible /\ shown' = s.shown
  /\ prof' = s.prof /\ num_sw' = s.num_sw
  /\ global_scale' = s.global_scale /\ minimize_to_tray' = s.minimize_to_tray
  /\ binds' = s.binds /\ types' = s.types /\ hidden_sets' = s.hidden_sets
  /\ rect' = s.rect /\ hover' = s.hover
  /\ p_toggle_master' = s.p_toggle_master /\ p_hide' = s.p_hide
  /\ p_toggle_overlay' = s.p_toggle_overlay /\ p_hide_hovered' = s.p_hide_hovered
  /\ data' = s.data
  /\ last'.raised = s.raised /\ last'.saves = s.saves

\* the operation of this step, had its writes succeeded
WithWritesOk ==
  CASE last'.op = "tick" -> TickBody(Cur, lastKeys', cursor', TRUE)
    [] last'.op = "switch" -> Switch(Cur, last'.arg, TRUE)
    [] last'.op = "set_num_switch" -> Save([Cur EXCEPT !.num_sw = num_sw'], TRUE)

\* C18: a failed persist is swallowed: when the write of a tick transition or
\* of a panel mutator other than reset fails, the operation completes with
\* the in-memory outcome it has when the write succeeds (the change applied,
\* no error raised by the failure), the file is untouched, and the in-memory
\* document holds the new state: memory is neither reverted nor replaced by
\* stored content.
C18_FailedPersistSwallowed ==
  [][(last'.op \in {"tick", "switch", "set_num_switch"} /\ ~last'.ok /\ last'.saves >= 1) =>
       /\ SameInMemory(WithWritesOk)
       /\ disk' = disk
       /\ ~last'.raised =>
            /\ data'.settings.master_on = master'
            /\ data'.settings.visible_overlay = visible'
            /\ data'.settings.selected_map = prof'
            /\ data'.settings.enable_num_switch = num_sw']_vars

\* toggle-overlay has made the overlay visible in a tick whose write failed:
\* the file still holds the document of before
C18_Witness ==
  /\ last.op = "tick" /\ ~last.ok /\ last.saves = 1 /\ ~last.raised
  /\ fired = {"toggle_overlay"}
  /\ master /\ visible /\ shown
  /\ data.settings.visible_overlay
  /\ disk # {data}
  /\ \E d \in disk : IsDict(d) /\ "version" \in DOMAIN d /\ ~d.settings.visible_overlay

\* the stored document does not pass the version gate: there is none, it does
\* not parse, it is no object, or its version is not the current one
NeedsReplace(dsk) ==
  \/ FileKind(dsk) \in {"missing", "unparseable", "list"}
  \/ \E d \in dsk :
        IsDict(d) /\ ("version" \notin DOMAIN d \/ d.version # CONFIG_VERSION)

\* C19: the load at a start of the program, on a file that does not pass the
\* version gate, returns a fresh default document and (the write succeeding)
\* leaves it as the stored content; a second load right after returns the
\* same document and leaves the same stored content; the program then runs
\* from the defaults.  A stored object of the current version is returned as
\* it is and the file is not replaced.
C19_VersionGate ==
  [][last'.op = "restart" =>
       LET first == load_or_replace_config(disk, last'.ok)
           second == load_or_replace_config(first[2], last'.ok)
       IN IF NeedsReplace(disk)
            THEN /\ first[1] = build_default_config
                 /\ second[1] = build_default_config
                 /\ last'.ok => /\ first[2] = {build_default_config}
                                /\ second[2] = first[2]
                 /\ AtDefaults'
          ELSE /\ first = <<CHOOSE d \in disk : TRUE, disk>>
               /\ second = first]_vars

\* the program has started on a file that did not parse, which was replaced:
\* it runs from the defaults and the file holds a document of the current
\* version
C19_Witness ==
  /\ last.op = "restart" /\ last.arg = "unparseable" /\ last.ok
  /\ AtDefaults
  /\ disk = {data}
  /\ data.version = CONFIG_VERSION
  /\ data.profiles = build_default_config.profiles

\* the state a start of the program reconstructs from the document that a
\* save of the current state stores
Reloaded == Startup({Save(Cur, TRUE).data}, TRUE)

\* C20: for every reachable in-memory state, saving it and loading the stored
\* document reconstructs an equivalent state: the load completes, and master,
\* visible, the selected map, scale, number switch, tray preference, the
\* keybinds, every category's enabled/color state and every category's hidden
\* set are the same.
C20_RoundTrip ==
  \E s \in {Reloaded} :
     /\ ~s.raised
     /\ s.master = master /\ s.visible = visible
     /\ s.prof = prof
     /\ s.global_scale = global_scale
     /\ s.num_sw = num_sw
     /\ s.minimize_to_tray = minimize_to_tray
     /\ s.binds = binds
     /\ s.types = types
     /\ s.hidden_sets = hidden_sets

\* the document found at start-up, and its settings
StoredAtInit == last.arg

StoredSettings == Get(StoredAtInit, "settings", EmptyDict)

\* every category has an entry with enabled and color, every action a
\* binding with an integer vk, every category a hidden set
Complete ==
  /\ \A k \in TypeSet :
        k \in DOMAIN types /\ {"enabled", "color"} \subseteq DOMAIN types[k]
  /\ \A a \in Actions :
        a \in DOMAIN binds /\ "vk" \in DOMAIN binds[a] /\ binds[a].vk \in Int
  /\ \A k \in TypeSet : k \in DOMAIN hidden_sets

\* C21: after the load of a version-matching document, whatever keys it
\* lacks, types has an entry with enabled and color for every category,
\* binds an entry with an integer vk for every action, and every category
\* has a hidden set; a stored entry is taken over, a missing one is the
\* default.
C21_LoadFillsDefaults ==
  last.op = "init" =>
    /\ Complete
    /\ \A k \in TypeSet :
          LET e == Get(Get(StoredSettings, "types", EmptyDict), k, EmptyDict)
          IN /\ types[k].enabled = Get(e, "enabled", TRUE)
             /\ types[k].color = Get(e, "color", DefaultFill(k))
    /\ \A a \in Actions :
          LET e == Get(Get(StoredSettings, "keybinds", EmptyDict), a, EmptyDict)
          IN binds[a].vk = Get(e, "vk", default_keybinds[a].vk)
    /\ \A k \in TypeSet \ {"possible_xp"} :
          hidden_sets[k] = Get(Get(StoredSettings, "hidden", EmptyDict), k, {})

\* a document without settings.types, and one whose towers entry lacks
\* enabled, has been loaded
C21_Witness ==
  /\ last.op = "init"
  /\ "settings" \in DOMAIN StoredAtInit
  /\ "keybinds" \notin DOMAIN StoredSettings
  /\ "types" \in DOMAIN StoredSettings
  /\ "towers" \in DOMAIN StoredSettings.types
  /\ "enabled" \notin DOMAIN StoredSettings.types.towers
  /\ types["towers"].enabled
  /\ types["towers"].color = <<"rgb", 1, 2, 3>>
  /\ binds["map_1"].vk = 49

\* every key of old outside known is in new, with the value it has in old
KeptIn(old, new, known) ==
  \A k \in DOMAIN old \ known : k \in DOMAIN new /\ new[k] = old[k]

\* the keys _load_state_from_config and _save read or write under settings
SettingsKeys ==
  {"enable_num_switch", "selected_map", "visible_overlay", "master_on",
   "global_scale", "minimize_to_tray", "keybinds", "types", "hidden"}

\* the unknown keys of document old under settings.<group> are in new
GroupKept(old, new, group, known) ==
  KeptIn(Get(Get(old, "settings", EmptyDict), group, EmptyDict),
         Get(Get(new, "settings", EmptyDict), group, EmptyDict), known)

\* the unknown keys inside the entries of settings.<group> are in new
EntriesKept(old, new, group, names, known) ==
  \A n \in names :
     KeptIn(Get(Get(Get(old, "settings", EmptyDict), group, EmptyDict), n, EmptyDict),
            Get(Get(Get(new, "settings", EmptyDict), group, EmptyDict), n, EmptyDict),
            known)

\* C22: the keys of the stored document that the program does not know, at
\* top level, under settings, and under settings.keybinds, settings.types
\* and settings.hidden, are in config.json with their values after the load
\* and the save of start-up.
C22_UnknownKeysKept ==
  last.op = "init" =>
    \A d \in disk :
       /\ KeptIn(StoredAtInit, d, {"version", "profiles", "settings"})
       /\ KeptIn(StoredSettings, Get(d, "settings", EmptyDict), SettingsKeys)
       /\ GroupKept(StoredAtInit, d, "keybinds", Actions)
       /\ EntriesKept(StoredAtInit, d, "keybinds", Actions, {"vk", "ctrl", "alt", "shift"})
       /\ GroupKept(StoredAtInit, d, "types", TypeSet)
       /\ EntriesKept(StoredAtInit, d, "types", TypeSet, {"enabled", "color"})
       /\ GroupKept(StoredAtInit, d, "hidden", TypeSet)

\* C23: the reset of the colours sets every category to its default fill
\* colour and to enabled, and leaves the hidden sets, the scale, master,
\* visible, the selected map and the keybinds as they are.
C23_ResetColors ==
  [][last'.op = "reset_colors" =>
       /\ \A k \in TypeSet :
             types'[k].enabled /\ types'[k].color = DefaultFill(k)
       /\ UNCHANGED <<hidden_sets, global_scale, master, visible, prof, binds>>]_vars

\* the colours have been reset where a category was not at its defaults,
\* with a hidden tower, a scale, a map and keybinds that are not the defaults
C23_Witness ==
  /\ last.op = "reset_colors"
  /\ "towers" \in last.arg
  /\ hidden_sets["towers"] # {}
  /\ global_scale # 100
  /\ prof = MAPS[2]
  /\ visible
  /\ binds # default_keybinds

\* the scale is within [0.10, 5.00]
ScaleInRange == 10 <= global_scale /\ global_scale <= 500

\* the scale setter keeps a value in range and moves any other to the
\* nearer end
SetterClamps ==
  last'.op = "scale_changed" =>
    global_scale' = (IF last'.arg < 10 THEN 10
                     ELSE IF last'.arg > 500 THEN 500 ELSE last'.arg)

\* C24: the scale is within [0.10, 5.00] in every state, after the load of
\* any stored value, after the scale setter (which clamps) and after reset.
C24_ScaleClamped == []ScaleInRange /\ [][SetterClamps]_vars

\* the setter was handed 9.00 and the scale is 5.00
C24_Witness == last.op = "scale_changed" /\ last.arg = 900 /\ global_scale = 500

\* C25: resolving the rectangle does not fail: a map selection that
\* resolves the rectangle of a map whose stored ratio is absent, no object,
\* or an object that lacks a field or holds a value that is no number, ends
\* without an exception and with the rectangle of the default ratios of the
\* aspect label.
C25_RectFallback ==
  [][(last'.op = "switch" /\ last'.rects > 0) =>
       /\ ~last'.raised
       /\ StoredRatio(data', prof').kind # "dict" =>
             rect' = RectFromRatio(default_rect_ratio_by_aspect(aspect))]_vars

\* an entry that is an object with a coordinate pair of two numbers
WellFormed(it) ==
  /\ it.kind = "dict"
  /\ it.c.kind = "list"
  /\ Len(it.c.items) >= 2
  /\ it.c.items[1].num /\ it.c.items[2].num

\* the points of the well-formed entries of a list, in the order of the list
PointsOfWellFormed(items, cat) ==
  LET sel == SelectSeq(items, WellFormed)
  IN [i \in 1..Len(sel) |-> PointFrom(sel[i], cat)]

\* C26: the load of the dataset does not fail on a malformed entry: an
\* entry that is no object, has no coordinate field, a coordinate field of
\* fewer than two elements or that is no sequence, or coordinates that are no
\* numbers is skipped, and the well-formed entries of the category are
\* loaded in their order.
C26_SkipsMalformed ==
  last.op = "build_points_for_map" =>
    /\ ~last.raised
    /\ \A cat \in TypeSet \ {"possible_xp"} :
          last.out[cat] = PointsOfWellFormed(last.arg[cat], cat)

\* C27: the possible_xp list of a map is its towers list, then its
\* big_towers list, then its armories list, nothing removed, and each of its
\* points carries the category it comes from.
C27_PossibleXpUnion ==
  (last.op = "build_points_for_map" /\ ~last.raised) =>
    LET out == last.out
        px == out["possible_xp"]
        nt == Len(out["towers"])
        nb == Len(out["big_towers"])
    IN /\ px = out["towers"] \o out["big_towers"] \o out["armories"]
       /\ Len(px) = nt + nb + Len(out["armories"])
       /\ \A i \in 1..Len(px) :
             px[i].src = (IF i <= nt THEN "towers"
                          ELSE IF i <= nt + nb THEN "big_towers" ELSE "armories")

\* a possible_xp list built from two equal towers, a big tower and an armory
\* at the coordinates of the towers
C27_Witness ==
  /\ last.op = "build_points_for_map"
  /\ ~last.raised
  /\ Len(last.out["towers"]) = 2
  /\ last.out["towers"][1] = last.out["towers"][2]
  /\ Len(last.out["big_towers"]) = 1
  /\ Len(last.out["armories"]) = 1
  /\ last.out["armories"][1].x = last.out["towers"][1].x
  /\ Len(last.out["possible_xp"]) = 4

\* the positions in the cached list of category tkey of map m
Positions(m, tkey) == 1..Len(cache[m][tkey])

\* the cached points of the selected map that are to be painted in category
\* tkey: the category is enabled and the hide identifier of the point is not
\* in the hidden set of the category
ToPaint(tkey) ==
  {i \in Positions(prof, tkey) :
     types[tkey].enabled /\ HiddenKey(tkey, cache[prof][tkey][i]) \notin hidden_sets[tkey]}

\* the painted list of a category is the cached list restricted to ToPaint
PaintedFromCache ==
  \A tkey \in TypeSet :
     LET painted == PaintList(Cur)[tkey]
     IN IF ~(master /\ visible) THEN painted = << >>
        ELSE /\ Len(painted) = Cardinality(ToPaint(tkey))
             /\ \A i \in ToPaint(tkey) :
                   painted[Cardinality({j \in ToPaint(tkey) : j <= i})] = cache[prof][tkey][i]

\* a point hidden in a category is in no painted list of that category
\* after a step that is no reset
HiddenStaysHidden ==
  last'.op # "reset" =>
    \A m \in MapSet, tkey \in TypeSet :
       \A i \in Positions(m, tkey) :
          IsHidden(hidden_sets, tkey, cache[m][tkey][i]) =>
            \A j \in 1..Len(PaintList(Cur)'[tkey]) :
               PaintList(Cur)'[tkey][j] # cache[m][tkey][i]

\* C28: nothing is painted unless master and visible hold; with both, the
\* painted points are the cached points of the selected map whose category
\* is enabled and whose hide identifier is not in the hidden set of the
\* category; a point hidden in a category is not painted in it again before
\* a reset to defaults.
C28_PaintedPoints == []PaintedFromCache /\ [][HiddenStaysHidden]_vars

\* on the third map, visible, two of the three towers are hidden and the
\* third is painted
C28_Witness ==
  /\ master /\ visible /\ prof = MAPS[3]
  /\ types["towers"].enabled
  /\ hidden_sets["towers"] # {}
  /\ Len(PaintList(Cur)["towers"]) = 1
  /\ Len(PaintList(Cur)["possible_xp"]) = 4

\* two points of category tkey have the same rounded coordinates and, in
\* possible_xp, the same source category
SameIdentity(tkey, p, q) ==
  /\ Round(p.x) = Round(q.x)
  /\ Round(p.y) = Round(q.y)
  /\ tkey = "possible_xp" => p.src = q.src

\* C30: the hide identifier of a point is determined by its category, its
\* rounded coordinates and, in possible_xp, its source category: a hide
\* hides, in the category of the hovered point, the points of the same
\* rounded coordinates (and source category), and no other point.
C30_HideIdentity ==
  [][hid' # NoHover =>
       \A m \in MapSet, tkey \in TypeSet :
          \A i \in Positions(m, tkey) :
             LET q == cache[m][tkey][i]
             IN IsHidden(hidden_sets', tkey, q) <=>
                  \/ IsHidden(hidden_sets, tkey, q)
                  \/ tkey = hid'.type /\ SameIdentity(tkey, PointOf(hid'), q)]_vars

\* the tower at 4094.5 was hidden in possible_xp: the tower at 4094.0 is
\* hidden there with it, the armory at the same coordinates and the tower at
\* 4093.0 are not
C30_Witness ==
  /\ hid # NoHover
  /\ hid.type = "possible_xp"
  /\ PointOf(hid).x = 8189
  /\ IsHidden(hidden_sets, "possible_xp", cache[MAPS[3]]["possible_xp"][1])
  /\ cache[MAPS[3]]["possible_xp"][1].x = 8188
  /\ ~IsHidden(hidden_sets, "possible_xp", cache[MAPS[3]]["possible_xp"][3])
  /\ ~IsHidden(hidden_sets, "possible_xp", cache[MAPS[3]]["possible_xp"][4])
  /\ cache[MAPS[3]]["possible_xp"][4].src = "armories"
  /\ cache[MAPS[3]]["possible_xp"][4].x = 8188

\* the modifiers the binding b asks for are among the keys down
ModifiersDown(b, down) ==
  /\ b.ctrl => VK_CONTROL \in down
  /\ b.alt => VK_MENU \in down
  /\ b.shift => VK_SHIFT \in down

\* C29: an action other than hide-hovered is pressed exactly when its
\* virtual key is down, whatever modifiers are down and whatever ctrl, alt
\* and shift its binding carries; hide-hovered is pressed exactly when its
\* virtual key and every modifier its binding asks for are down; an action
\* bound to virtual key 0 is never pressed.
C29_ModifierGating ==
  last.op = "tick" =>
    \A a \in Actions :
       a \in lastKeys <=>
         /\ binds[a].vk # 0
         /\ binds[a].vk \in last.arg
         /\ a = "hide_hovered" => ModifiersDown(binds[a], last.arg)

\* Tab alone is down: toggle-overlay, whose binding carries ctrl, is pressed;
\* hide-hovered is rebound to Tab with ctrl and is not; toggle-master is
\* bound to virtual key 0
C29_Witness ==
  /\ last.op = "tick"
  /\ last.arg = {9}
  /\ "toggle_overlay" \in lastKeys
  /\ binds["toggle_overlay"].ctrl
  /\ binds["hide_hovered"].vk = 9
  /\ binds["hide_hovered"].ctrl
  /\ "hide_hovered" \notin lastKeys
  /\ binds["toggle_master"].vk = 0

\* the last tick was ended by an exception
TickRaised == last.op = "tick" /\ last.raised

\* the last tick ran to its end
TickCompleted == last.op = "tick" /\ ~last.raised

\* C31: a tick that raises does not stop the timer: after it, a tick runs
\* that polls the hotkeys and goes through the state machine to its end.
C31_TickLoopSurvives == TickRaised ~> TickCompleted

\* a tick was ended by the exception of the map switch, the second map
\* selected and the rectangle not resolved
C31_Witness == TickRaised /\ prof = MAPS[2] /\ "map_2" \in lastKeys

\* n / (2 * GRID) lies in [0, 1]
InUnit(n) == 0 <= n /\ n <= 2 * GRID

\* a coordinate, in halves, on the source grid
OnGrid(n) == 0 <= n /\ n <= 2 * GRID

\* n clamped into the numerators of [0, 1]
Clamped(n) == IF n < 0 THEN 0 ELSE IF n > 2 * GRID THEN 2 * GRID ELSE n

\* C32: on the grid the transform gives u = y / 4095 and v = (4095 - x) / 4095
\* in the unit square, the four corners go to (0,1), (1,0), (1,1) and (0,0),
\* and off the grid each of u and v is clamped into [0, 1].
C32_RotateNormalised ==
  last.op = "rotate90cw_norm" =>
    LET x == last.arg[1]
        y == last.arg[2]
        r == last.out
    IN /\ InUnit(r.u) /\ InUnit(r.v)
       /\ OnGrid(x) /\ OnGrid(y) => r.u = y /\ r.v = 2 * GRID - x
       /\ r.u = Clamped(y) /\ r.v = Clamped(2 * GRID - x)
       /\ last.arg = <<0, 0>> => r = [u |-> 0, v |-> 2 * GRID]
       /\ last.arg = <<2 * GRID, 2 * GRID>> => r = [u |-> 2 * GRID, v |-> 0]
       /\ last.arg = <<0, 2 * GRID>> => r = [u |-> 2 * GRID, v |-> 2 * GRID]
       /\ last.arg = <<2 * GRID, 0>> => r = [u |-> 0, v |-> 0]

\* a pair off the grid on both axes was transformed and clamped to (1, 1)
C32_Witness ==
  /\ last.op = "rotate90cw_norm"
  /\ last.arg = <<-1, 2 * GRID + 1>>
  /\ last.out = [u |-> 2 * GRID, v |-> 2 * GRID]

\* C33: the aspect detection returns one of the three labels for every
\* size: 16:9 for a height of 0 or less, else 32:9 iff w / h >= 3.20, 21:9
\* iff 2.20 <= w / h < 3.20, and 16:9 iff w / h < 2.20.
C33_AspectLabel ==
  last.op = "detect_aspect_label" =>
    LET w == last.arg[1]
        h == last.arg[2]
        r == last.out
    IN /\ r \in {"16:9", "21:9", "32:9"}
       /\ h <= 0 => r = "16:9"
       /\ h > 0 => /\ r = "32:9" <=> 10 * w >= 32 * h
                   /\ r = "21:9" <=> (22 * h <= 10 * w /\ 10 * w < 32 * h)
                   /\ r = "16:9" <=> 10 * w < 22 * h
       /\ last.arg = <<3840, 1080>> => r = "32:9"
       /\ last.arg = <<2560, 1080>> => r = "21:9"
       /\ last.arg = <<1920, 1080>> => r = "16:9"
       /\ last.arg = <<100, 0>> => r = "16:9"

\* a size whose ratio is exactly 3.20 was labelled 32:9
C33_Witness ==
  /\ last.op = "detect_aspect_label"
  /\ last.arg = <<3456, 1080>>
  /\ last.out = "32:9"

\* C34: the overlay window is shown exactly when master is on and the
\* visible flag is true.
C34_ShownIffFlags == shown <=> (master /\ visible)

\* the rectangle resolved for map m from document d and the detected
\* aspect: defined, and equal to r
ResolvedFor(d, m, r) ==
  LET e == StoredRatio(d, m)
  IN /\ e.kind \notin {"bad_dict", "non_numeric"}
     /\ r = RectFromRatio(IF e.kind \in {"absent", "not_object"}
                            THEN default_rect_ratio_by_aspect(aspect) ELSE e.rr)

\* the map stored in document d
StoredMap(d) == Get(Get(d, "settings", EmptyDict), "selected_map", None)

\* C35: after every operation, completed or aborted, the selected map is one
\* of the four map names and the active rectangle is the one resolved for
\* it; the selected map never changes without the rectangle and the stored
\* document changing with it.
C35_MapRectInStep ==
  /\ [](prof \in MapSet /\ ResolvedFor(data, prof, rect))
  /\ [][prof' # prof =>
          /\ ResolvedFor(data', prof', rect')
          /\ StoredMap(data') = prof'
          /\ disk' = {data'}]_vars

\* C36: the two pre-seeded identifiers are in the hidden set of possible_xp
\* in every state, and no operation but reset removes an identifier from
\* the hidden set of any category.
C36_SeededAndGrowing ==
  /\ [](DEFAULT_HIDDEN_POSSIBLE_XP \subseteq hidden_sets["possible_xp"])
  /\ [][last'.op # "reset" =>
          \A k \in DOMAIN hidden_sets :
             k \in DOMAIN hidden_sets' /\ hidden_sets[k] \subseteq hidden_sets'[k]]_vars

\* a document that stores no pre-seeded identifier was loaded, a tower was
\* hidden, and both pre-seeded identifiers are hidden next to the stored one
C36_Witness ==
  /\ last.op = "tick"
  /\ hid # NoHover
  /\ hidden_sets["towers"] # {<<1, 1>>}
  /\ <<1, 1>> \in hidden_sets["towers"]
  /\ hidden_sets["possible_xp"] = DEFAULT_HIDDEN_POSSIBLE_XP \cup {<<"towers", 1, 1>>}

=============================================================================
